---------------------------- MODULE Spec2Model ----------------------------
(***************************************************************************)
(* A model of three parts of the retina RTSP client library:               *)
(*   - the fixed-size audio depacketizer (src/src/codec/simple_audio.rs),  *)
(*   - the extended RTP Timestamp          (src/src/lib.rs, Timestamp),    *)
(*   - the UDP RTP/RTCP socket pair        (src/src/lib.rs, UdpPair).      *)
(* Each part has its own specification (SpecAudio, SpecTimestamp,          *)
(* SpecUdp, and FairSpecUdp for termination); the variables of the other   *)
(* parts stay at their initial value.                                      *)
(***************************************************************************)
EXTENDS Integers, Sequences, FiniteSets, TLC

VARIABLES
    depacketizer,   \* simple_audio::Depacketizer {clock_rate, pending, bits_per_sample}
    audioRet,       \* the last Depacketizer call: its operation, result, argument, receiver before
    audioPrev,      \* operation and result of the call before the last one
    pushed,         \* the packets of the push calls that returned Ok, in order
    pulled,         \* the items the pull calls returned (Some), in order
    owed,           \* the caller has pushed successfully and not pulled since
    nOps,           \* number of Depacketizer calls made
    tsArgs,         \* the arguments Timestamp::new is called with
    ts,             \* the Option<Timestamp> the caller holds
    tsPc,           \* "args" before Timestamp::new has run, "made" after ("idle": unused)
    tsAdd,          \* the last try_add call: its delta, its receiver, whether it returned Some
    nAdds,          \* number of try_add calls made
    sockets,        \* the UDP sockets bound on ip_addr: [port, owner], owner 0 another
                    \* process, owner k >= 1 the k-th for_ip call
    call,           \* number of for_ip calls started; the running call is call
    pc,             \* "idle", or where the running for_ip is: "rtp" (loop head), "rtcp"
    i,              \* for_ip's loop index
    rtp_port,       \* for_ip's rtp_port of the attempt in progress
    udpRet,         \* what the last for_ip call returned
    pairs,          \* the UdpPairs the caller holds
    attempt,        \* the last attempt of the last call: its index, port and bind results
    tally           \* per call: attempts begun, binds made, kinds of failure seen

audioVars == <<depacketizer, audioRet, audioPrev, pushed, pulled, owed, nOps>>

tsVars == <<tsArgs, ts, tsPc, tsAdd, nAdds>>

udpVars == <<sockets, call, pc, i, rtp_port, udpRet, pairs, attempt, tally>>

vars == <<audioVars, tsVars, udpVars>>

-----------------------------------------------------------------------------
(* Bounds of the model. *)

\* payload lengths 0..MaxLen are drawn beside the lengths around u16::MAX
MaxLen == 3
\* bits-per-sample values 0..MaxBits are drawn beside 8 and 16
MaxBits == 3
\* number of Depacketizer calls in one behaviour
MaxOps == 4
\* number of distinct packet contents (loss, ctx, stream_id, timestamp, data) per length
MetaVariants == 2
\* timestamps, starts and deltas are drawn within TsEdge of each boundary value
TsEdge == 1
\* number of try_add calls in one behaviour
MaxAdds == 2
\* gen_range draws the PortSpan + 1 lowest and the PortSpan + 1 highest ports of the range
PortSpan == 0
\* number of for_ip calls in one behaviour
MaxCalls == 2

-----------------------------------------------------------------------------
(* simple_audio.rs *)

\* u16::MAX
U16_MAX == 65535

\* Option::None of the pending field and of pull's result
NoFrame == [some |-> FALSE, loss |-> 0, ctx |-> 0, stream_id |-> 0,
            timestamp |-> 0, frame_length |-> 0,
            data |-> [len |-> 0, bytes |-> 0]]

\* the payload lengths a packet is drawn with
PayloadLens == (0 .. MaxLen) \cup {U16_MAX - 1, U16_MAX, U16_MAX + 1}

\* the bits-per-sample values a depacketizer is constructed with (a u32)
BitsPerSample == (0 .. MaxBits) \cup {8, 16}

\* the clock rates a depacketizer is constructed with
ClockRates == {8000, 16000}

\* client::rtp::Packet, the fields push reads. The payload is a Bytes handle:
\* its length and the identity of its content.
Pkt(len, v) ==
    [payload |-> [len |-> len, bytes |-> v], loss |-> v - 1, ctx |-> 10 + v,
     stream_id |-> v % 2, timestamp |-> 1000 * v]

Packets == { Pkt(len, v) : len \in PayloadLens, v \in 1 .. MetaVariants }

\* the packet argument of a call that takes none
NoPacket ==
    [payload |-> [len |-> 0, bytes |-> 0], loss |-> 0, ctx |-> 0, stream_id |-> 0,
     timestamp |-> 0]

\* Depacketizer::new
DepacketizerNew(clock_rate, bits_per_sample) ==
    [clock_rate |-> clock_rate, bits_per_sample |-> bits_per_sample,
     pending |-> NoFrame]

\* a frame_length that lets every non-empty payload through: bits / bps rounded down
frame_length_no_rem_check(self, payload_len) ==
    IF ~(payload_len < U16_MAX) THEN [kind |-> "panic_assert", value |-> 0]
    ELSE IF self.bits_per_sample = 0 THEN [kind |-> "panic_rem_zero", value |-> 0]
    ELSE LET bits == payload_len * 8
             n == bits \div self.bits_per_sample
         IN IF n = 0 THEN [kind |-> "None", value |-> 0]
            ELSE [kind |-> "Some", value |-> n]

\* Depacketizer::frame_length: Option<NonZeroU32>, or a panic.
\*   assert!(payload_len < usize::from(u16::MAX))   panics on a long payload;
\*   bits % self.bits_per_sample                    panics on a zero divisor;
\*   NonZeroU32::new(0)                             is None.
\* payload_len < 65535 after the assertion, so (payload_len as u32) * 8 does
\* not wrap.
frame_length(self, payload_len) ==
    IF ~(payload_len < U16_MAX) THEN [kind |-> "panic_assert", value |-> 0]
    ELSE IF self.bits_per_sample = 0 THEN [kind |-> "panic_rem_zero", value |-> 0]
    ELSE LET bits == payload_len * 8
         IN IF (bits % self.bits_per_sample) # 0
            THEN [kind |-> "None", value |-> 0]
            ELSE LET n == bits \div self.bits_per_sample
                 IN IF n = 0 THEN [kind |-> "None", value |-> 0]
                    ELSE [kind |-> "Some", value |-> n]

\* the AudioFrame push stores
AudioFrame(pkt, fl) ==
    [some |-> TRUE, loss |-> pkt.loss, ctx |-> pkt.ctx, stream_id |-> pkt.stream_id,
     timestamp |-> pkt.timestamp, frame_length |-> fl, data |-> pkt.payload]

\* a push that stores the frame before it validates the length
push_stores_before_check(self, pkt) ==
    IF self.pending.some
    THEN [res |-> "panic_pending", self |-> self]
    ELSE LET fl == frame_length(self, pkt.payload.len)
             stored == [self EXCEPT !.pending = AudioFrame(pkt, fl.value)]
         IN CASE fl.kind = "Some" -> [res |-> "Ok", self |-> stored]
              [] fl.kind = "None" -> [res |-> "Err", self |-> stored]
              [] OTHER            -> [res |-> fl.kind, self |-> self]

\* Depacketizer::push: the result and the depacketizer after the call.
push(self, pkt) ==
    IF self.pending.some
    THEN [res |-> "panic_pending", self |-> self]
    ELSE LET fl == frame_length(self, pkt.payload.len)
         IN CASE fl.kind = "Some" ->
                   [res |-> "Ok",
                    self |-> [self EXCEPT !.pending = AudioFrame(pkt, fl.value)]]
              [] fl.kind = "None" -> [res |-> "Err", self |-> self]
              [] OTHER            -> [res |-> fl.kind, self |-> self]

\* a pull that returns the pending frame and leaves it in place
pull_without_take(self) ==
    [item |-> self.pending, self |-> self]

\* Depacketizer::pull: self.pending.take()
pull(self) ==
    [item |-> self.pending, self |-> [self EXCEPT !.pending = NoFrame]]

Panicked(res) == res \in {"panic_assert", "panic_rem_zero", "panic_pending"}

-----------------------------------------------------------------------------
(* Integers of the widths of lib.rs. TLC's integers are 32 bits wide, so an  *)
(* integer z is held as four limbs <<z0, z1, z2, z3>> of 16 bits, least      *)
(* significant first: z = z0 + z1*2^16 + z2*2^32 + z3*2^48 with z0, z1, z2   *)
(* in 0..65535. The top limb z3 carries the sign and is not bounded, so a    *)
(* sum or difference is exact; it is an i64 when z3 is in -2^15 .. 2^15-1.   *)

Limb == U16_MAX + 1

ZNorm(x) ==
    LET s1 == x[2] + (x[1] \div Limb)
        s2 == x[3] + (s1 \div Limb)
        s3 == x[4] + (s2 \div Limb)
    IN <<x[1] % Limb, s1 % Limb, s2 % Limb, s3>>

ZInt(k) == ZNorm(<<k, 0, 0, 0>>)
ZAdd(a, b) == ZNorm(<<a[1] + b[1], a[2] + b[2], a[3] + b[3], a[4] + b[4]>>)
ZSub(a, b) == ZNorm(<<a[1] - b[1], a[2] - b[2], a[3] - b[3], a[4] - b[4]>>)
ZLt(a, b) ==
    \/ a[4] < b[4]
    \/ a[4] = b[4] /\ a[3] < b[3]
    \/ a[4] = b[4] /\ a[3] = b[3] /\ a[2] < b[2]
    \/ a[4] = b[4] /\ a[3] = b[3] /\ a[2] = b[2] /\ a[1] < b[1]
ZLe(a, b) == a = b \/ ZLt(a, b)

\* i64::MIN, i64::MAX, u32::MAX
I64_MIN == <<0, 0, 0, -(Limb \div 2)>>
I64_MAX == <<U16_MAX, U16_MAX, U16_MAX, (Limb \div 2) - 1>>
U32_MAX == <<U16_MAX, U16_MAX, 0, 0>>

FitsI64(z) == ZLe(I64_MIN, z) /\ ZLe(z, I64_MAX)
\* two's complement wrap to 64 bits
WrapI64(z) == <<z[1], z[2], z[3], ((z[4] + (Limb \div 2)) % Limb) - (Limb \div 2)>>

\* i64::checked_sub, i64::checked_add: Option<i64>
checked_sub(a, b) == LET d == ZSub(a, b) IN [some |-> FitsI64(d), value |-> d]
checked_add(a, b) == LET d == ZAdd(a, b) IN [some |-> FitsI64(d), value |-> d]

-----------------------------------------------------------------------------
(* lib.rs: Timestamp *)

\* Option::None of Option<Timestamp>
NoTimestamp == [some |-> FALSE, timestamp |-> ZInt(0), clock_rate |-> 1, start |-> ZInt(0)]

\* a new that checks timestamp + start instead of timestamp - start
TimestampNew_checked_add(timestamp, clock_rate, start) ==
    IF checked_add(timestamp, start).some
    THEN [some |-> TRUE, timestamp |-> timestamp, clock_rate |-> clock_rate,
          start |-> start]
    ELSE NoTimestamp

\* Timestamp::new(timestamp: i64, clock_rate: NonZeroU32, start: u32)
TimestampNew(timestamp, clock_rate, start) ==
    IF checked_sub(timestamp, start).some
    THEN [some |-> TRUE, timestamp |-> timestamp, clock_rate |-> clock_rate,
          start |-> start]
    ELSE NoTimestamp

\* Timestamp::elapsed: self.timestamp - i64::from(self.start), an unchecked
\* subtraction. When it overflows, a build with overflow checks panics and a
\* build without them wraps: the set holds every outcome a build can produce.
elapsed(self) ==
    LET d == ZSub(self.timestamp, self.start)
    IN IF FitsI64(d) THEN {[panic |-> FALSE, value |-> d]}
       ELSE {[panic |-> TRUE, value |-> d], [panic |-> FALSE, value |-> WrapI64(d)]}

\* Timestamp::elapsed_secs: (self.elapsed() as f64) / (self.clock_rate.get() as f64),
\* held as the two operands of the division; the rounding of the f64
\* conversions and of the f64 quotient is not represented.
elapsed_secs(self) ==
    { [panic |-> e.panic, num |-> e.value, den |-> self.clock_rate] : e \in elapsed(self) }

\* a try_add that wraps instead of checking the overflow
try_add_wrapping(self, delta) ==
    [some |-> TRUE, timestamp |-> WrapI64(ZAdd(self.timestamp, delta)),
     clock_rate |-> self.clock_rate, start |-> self.start]

\* Timestamp::try_add(&self, delta: u32)
try_add(self, delta) ==
    LET r == checked_add(self.timestamp, delta)
    IN IF r.some
       THEN [some |-> TRUE, timestamp |-> r.value, clock_rate |-> self.clock_rate,
             start |-> self.start]
       ELSE NoTimestamp

\* the values within TsEdge of z
Near(z) == { ZAdd(z, ZInt(k)) : k \in -TsEdge .. TsEdge }

\* the i64 timestamps drawn: around i64::MIN, i64::MIN + u32::MAX (where
\* timestamp - start stops underflowing), 0, u32::MAX and i64::MAX
TimestampInputs ==
    { z \in Near(I64_MIN) \cup Near(ZAdd(I64_MIN, U32_MAX)) \cup Near(ZInt(0))
            \cup Near(U32_MAX) \cup Near(I64_MAX) : FitsI64(z) }

\* the u32 values drawn for start and delta: around 0, 2^16 and u32::MAX
U32Inputs ==
    { z \in Near(ZInt(0)) \cup Near(ZInt(Limb)) \cup Near(U32_MAX) :
        ZLe(ZInt(0), z) /\ ZLe(z, U32_MAX) }

\* the NonZeroU32 clock rates drawn
TsClockRates == {1, 90000}

NoAdd == [called |-> FALSE, delta |-> ZInt(0), pre |-> NoTimestamp, some |-> FALSE]

-----------------------------------------------------------------------------
(* lib.rs: UdpPair *)

\* const MAX_TRIES: usize = 10
MAX_TRIES == 10
\* const ALLOWED_RTP_RANGE: Range<u16> = 5000..65000
ALLOWED_RTP_RANGE_start == 5000
ALLOWED_RTP_RANGE_end == 65000

\* ALLOWED_RTP_RANGE.contains(&port)
RangeContains(port) == ALLOWED_RTP_RANGE_start <= port /\ port < ALLOWED_RTP_RANGE_end

\* rng.gen_range(ALLOWED_RTP_RANGE): the values drawn, at both ends of the range
gen_range ==
    { ALLOWED_RTP_RANGE_start + k : k \in 0 .. PortSpan }
        \cup { ALLOWED_RTP_RANGE_end - 1 - k : k \in 0 .. PortSpan }

\* a candidate port that keeps the lowest bit of the draw
candidate_port_unmasked(raw) == raw

\* rng.gen_range(ALLOWED_RTP_RANGE) & !0b1 on a u16: the lowest bit cleared
candidate_port(raw) == raw - (raw % 2)

\* rtp_port + 1 on a u16. An overflow panics in a build with overflow checks
\* and wraps in one without: the set holds every outcome a build can produce.
rtcp_port(port) ==
    IF port + 1 <= U16_MAX THEN {port + 1} ELSE {-1, (port + 1) % Limb}

InUse(socks, port) == \E s \in socks : s.port = port

\* a bind that sets address reuse: a port in use does not make it fail
bind_results_reuse(socks, port) == {"Ok", "Other"}

\* UdpSocket::bind(addr): the results the system can give. A port that a
\* socket on this address is bound to gives AddrInUse; any bind can fail for
\* another reason (an address that is not local, no buffers, ...).
bind_results(socks, port) ==
    IF InUse(socks, port) THEN {"AddrInUse", "Other"} ELSE {"Ok", "Other"}

\* the socket table after a bind by `owner` that ended in `res`
bound(socks, port, owner, res) ==
    IF res = "Ok" THEN socks \cup {[port |-> port, owner |-> owner]} ELSE socks

\* a socket that stays open when its owner goes out of scope
leak(socks, port, owner) == socks

\* a UdpSocket going out of scope (continue, return Err, a UdpPair dropped):
\* the socket is closed and its port released
drop(socks, port, owner) == socks \ {[port |-> port, owner |-> owner]}

\* a loop over 0..=MAX_TRIES
loop_ends_inclusive(idx) == idx + 1 >= MAX_TRIES + 1

\* for i in 0..MAX_TRIES: whether the attempt with index idx was the last one
loop_ends(idx) == idx + 1 >= MAX_TRIES

NoRet == [call |-> 0, kind |-> "none", err |-> "none", rtp_port |-> 0]
NoAttempt == [i |-> 0, rtp_port |-> 0, rtp |-> "none", rtcp |-> "none"]
NoTally == [tries |-> 0, rtp_binds |-> 0, rtcp_binds |-> 0, in_use |-> 0, other |-> 0]

\* the UdpPair for_ip returns
UdpPair(k, port) ==
    [call |-> k, rtp_port |-> port,
     rtp_socket |-> [port |-> port, owner |-> k],
     rtcp_socket |-> [port |-> port + 1, owner |-> k]]

\* the ports other processes bind and close: those for_ip can draw, and their successors
EnvPorts == UNION { {candidate_port(raw), candidate_port(raw) + 1} : raw \in gen_range }

-----------------------------------------------------------------------------
(* Specifications *)

InitAudio ==
    /\ \E cr \in ClockRates, bps \in BitsPerSample :
          /\ depacketizer = DepacketizerNew(cr, bps)
          /\ audioRet = [op |-> "new", res |-> "Ok", pkt |-> NoPacket,
                         item |-> NoFrame, pre |-> DepacketizerNew(cr, bps)]
    /\ audioPrev = [op |-> "none", res |-> "none"]
    /\ pushed = << >>
    /\ pulled = << >>
    /\ owed = FALSE
    /\ nOps = 0
    \* the other parts are not used
    /\ tsArgs = [timestamp |-> ZInt(0), clock_rate |-> 1, start |-> ZInt(0)]
    /\ ts = NoTimestamp
    /\ tsPc = "idle"
    /\ tsAdd = NoAdd
    /\ nAdds = 0
    /\ sockets = {}
    /\ call = 0
    /\ pc = "idle"
    /\ i = 0
    /\ rtp_port = 0
    /\ udpRet = NoRet
    /\ pairs = {}
    /\ attempt = NoAttempt
    /\ tally = NoTally

\* The caller pushes one packet. It pulls after every successful push, so it
\* pushes only when it owes no pull. A panic ends the program.
Push(pkt) ==
    /\ nOps < MaxOps
    /\ ~Panicked(audioRet.res)
    /\ ~owed
    /\ LET r == push(depacketizer, pkt)
       IN /\ depacketizer' = r.self
          /\ audioRet' = [op |-> "push", res |-> r.res, pkt |-> pkt,
                          item |-> NoFrame, pre |-> depacketizer]
          /\ pushed' = IF r.res = "Ok" THEN Append(pushed, pkt) ELSE pushed
          /\ owed' = (r.res = "Ok")
    /\ audioPrev' = [op |-> audioRet.op, res |-> audioRet.res]
    /\ nOps' = nOps + 1
    /\ UNCHANGED <<pulled, tsVars, udpVars>>

\* The caller pulls (at any time).
Pull ==
    /\ nOps < MaxOps
    /\ ~Panicked(audioRet.res)
    /\ LET r == pull(depacketizer)
       IN /\ depacketizer' = r.self
          /\ audioRet' = [op |-> "pull",
                          res |-> IF r.item.some THEN "Some" ELSE "None",
                          pkt |-> NoPacket, item |-> r.item, pre |-> depacketizer]
          /\ pulled' = IF r.item.some THEN Append(pulled, r.item) ELSE pulled
    /\ owed' = FALSE
    /\ audioPrev' = [op |-> audioRet.op, res |-> audioRet.res]
    /\ nOps' = nOps + 1
    /\ UNCHANGED <<pushed, tsVars, udpVars>>

NextAudio ==
    \/ \E pkt \in Packets : Push(pkt)
    \/ Pull

InitUdp ==
    /\ sockets = {}
    /\ call = 0
    /\ pc = "idle"
    /\ i = 0
    /\ rtp_port = 0
    /\ udpRet = NoRet
    /\ pairs = {}
    /\ attempt = NoAttempt
    /\ tally = NoTally
    \* the other parts are not used
    /\ depacketizer = DepacketizerNew(8000, 8)
    /\ audioRet = [op |-> "idle", res |-> "Ok", pkt |-> NoPacket,
                   item |-> NoFrame, pre |-> DepacketizerNew(8000, 8)]
    /\ audioPrev = [op |-> "none", res |-> "none"]
    /\ pushed = << >>
    /\ pulled = << >>
    /\ owed = FALSE
    /\ nOps = 0
    /\ tsArgs = [timestamp |-> ZInt(0), clock_rate |-> 1, start |-> ZInt(0)]
    /\ ts = NoTimestamp
    /\ tsPc = "idle"
    /\ tsAdd = NoAdd
    /\ nAdds = 0

\* for_ip is called: the loop starts with i = 0.
ForIpCall ==
    /\ pc = "idle"
    /\ udpRet.kind # "panic"
    /\ call < MaxCalls
    /\ call' = call + 1
    /\ pc' = "rtp"
    /\ i' = 0
    /\ rtp_port' = 0
    /\ attempt' = NoAttempt
    /\ tally' = NoTally
    /\ UNCHANGED <<sockets, udpRet, pairs, audioVars, tsVars>>

\* for_ip returns Err(kind) with no socket of its own left
ReturnErr(kind) ==
    /\ pc' = "idle"
    /\ udpRet' = [call |-> call, kind |-> "Err", err |-> kind, rtp_port |-> 0]
    /\ UNCHANGED <<i, pairs>>

\* continue: the next attempt, or Err(AddrInUse) after the last one
Continue ==
    IF loop_ends(i)
    THEN ReturnErr("AddrInUse")
    ELSE /\ pc' = "rtp"
         /\ i' = i + 1
         /\ UNCHANGED <<udpRet, pairs>>

\* One attempt up to the RTP bind: the port is drawn, the debug assertion
\* checked, the RTP socket bound. A failing debug_assert! panics (it is
\* compiled into builds with debug assertions).
BindRtp ==
    /\ pc = "rtp"
    /\ \E raw \in gen_range :
         LET port == candidate_port(raw)
         IN IF ~RangeContains(port)
            THEN /\ pc' = "idle"
                 /\ udpRet' = [call |-> call, kind |-> "panic", err |-> "debug_assert",
                               rtp_port |-> port]
                 /\ UNCHANGED <<sockets, i, rtp_port, pairs, attempt, tally>>
            ELSE \E res \in bind_results(sockets, port) :
                   /\ sockets' = bound(sockets, port, call, res)
                   /\ rtp_port' = port
                   /\ attempt' = [i |-> i, rtp_port |-> port, rtp |-> res, rtcp |-> "none"]
                   /\ tally' = [tally EXCEPT
                                  !.tries = @ + 1,
                                  !.rtp_binds = @ + 1,
                                  !.in_use = IF res = "AddrInUse" THEN @ + 1 ELSE @,
                                  !.other = IF res = "Other" THEN @ + 1 ELSE @]
                   /\ CASE res = "Ok" -> /\ pc' = "rtcp"
                                         /\ UNCHANGED <<i, udpRet, pairs>>
                        [] res = "AddrInUse" -> Continue
                        [] OTHER -> ReturnErr("Other")
    /\ UNCHANGED <<call, audioVars, tsVars>>

\* The rest of the attempt: the RTCP socket is bound on rtp_port + 1. When the
\* bind fails, rtp_socket goes out of scope.
BindRtcp ==
    /\ pc = "rtcp"
    /\ \E port \in rtcp_port(rtp_port) :
         IF port < 0
         THEN /\ pc' = "idle"
              /\ udpRet' = [call |-> call, kind |-> "panic", err |-> "overflow",
                            rtp_port |-> rtp_port]
              /\ UNCHANGED <<sockets, i, pairs, attempt, tally>>
         ELSE \E res \in bind_results(sockets, port) :
              /\ attempt' = [attempt EXCEPT !.rtcp = res]
              /\ tally' = [tally EXCEPT
                             !.rtcp_binds = @ + 1,
                             !.in_use = IF res = "AddrInUse" THEN @ + 1 ELSE @,
                             !.other = IF res = "Other" THEN @ + 1 ELSE @]
              /\ CASE res = "Ok" ->
                        /\ sockets' = bound(sockets, port, call, res)
                        /\ pairs' = pairs \cup {UdpPair(call, rtp_port)}
                        /\ udpRet' = [call |-> call, kind |-> "Ok", err |-> "none",
                                      rtp_port |-> rtp_port]
                        /\ pc' = "idle"
                        /\ UNCHANGED i
                   [] res = "AddrInUse" ->
                        /\ sockets' = drop(sockets, rtp_port, call)
                        /\ Continue
                   [] OTHER ->
                        /\ sockets' = drop(sockets, rtp_port, call)
                        /\ ReturnErr("Other")
    /\ UNCHANGED <<call, rtp_port, audioVars, tsVars>>

\* The caller drops a UdpPair it holds: both sockets are closed.
DropPair(p) ==
    /\ pc = "idle"
    /\ p \in pairs
    /\ pairs' = pairs \ {p}
    /\ sockets' = drop(drop(sockets, p.rtp_socket.port, p.rtp_socket.owner),
                       p.rtcp_socket.port, p.rtcp_socket.owner)
    /\ UNCHANGED <<call, pc, i, rtp_port, udpRet, attempt, tally, audioVars, tsVars>>

\* Another process binds a free port of the address.
EnvBind(port) ==
    /\ ~InUse(sockets, port)
    /\ sockets' = sockets \cup {[port |-> port, owner |-> 0]}
    /\ UNCHANGED <<call, pc, i, rtp_port, udpRet, pairs, attempt, tally, audioVars, tsVars>>

\* Another process closes a socket of its own.
EnvClose(port) ==
    /\ [port |-> port, owner |-> 0] \in sockets
    /\ sockets' = sockets \ {[port |-> port, owner |-> 0]}
    /\ UNCHANGED <<call, pc, i, rtp_port, udpRet, pairs, attempt, tally, audioVars, tsVars>>

NextUdp ==
    \/ ForIpCall
    \/ BindRtp
    \/ BindRtcp
    \/ \E p \in pairs : DropPair(p)
    \/ \E port \in EnvPorts : EnvBind(port)
    \/ \E port \in EnvPorts : EnvClose(port)

InitTs ==
    /\ tsArgs \in [timestamp : TimestampInputs, clock_rate : TsClockRates,
                   start : U32Inputs]
    /\ ts = NoTimestamp
    /\ tsPc = "args"
    /\ tsAdd = NoAdd
    /\ nAdds = 0
    \* the other parts are not used
    /\ depacketizer = DepacketizerNew(8000, 8)
    /\ audioRet = [op |-> "idle", res |-> "Ok", pkt |-> NoPacket,
                   item |-> NoFrame, pre |-> DepacketizerNew(8000, 8)]
    /\ audioPrev = [op |-> "none", res |-> "none"]
    /\ pushed = << >>
    /\ pulled = << >>
    /\ owed = FALSE
    /\ nOps = 0
    /\ sockets = {}
    /\ call = 0
    /\ pc = "idle"
    /\ i = 0
    /\ rtp_port = 0
    /\ udpRet = NoRet
    /\ pairs = {}
    /\ attempt = NoAttempt
    /\ tally = NoTally

\* The caller constructs the Timestamp.
New ==
    /\ tsPc = "args"
    /\ ts' = TimestampNew(tsArgs.timestamp, tsArgs.clock_rate, tsArgs.start)
    /\ tsPc' = "made"
    /\ UNCHANGED <<tsArgs, tsAdd, nAdds, audioVars, udpVars>>

\* The caller advances the Timestamp it holds; it keeps the one it has when
\* try_add returns None.
TryAdd(delta) ==
    /\ tsPc = "made"
    /\ ts.some
    /\ nAdds < MaxAdds
    /\ LET r == try_add(ts, delta)
       IN /\ ts' = IF r.some THEN r ELSE ts
          /\ tsAdd' = [called |-> TRUE, delta |-> delta, pre |-> ts, some |-> r.some]
    /\ nAdds' = nAdds + 1
    /\ UNCHANGED <<tsArgs, tsPc, audioVars, udpVars>>

NextTs ==
    \/ New
    \/ \E delta \in U32Inputs : TryAdd(delta)

SpecAudio == InitAudio /\ [][NextAudio]_vars

SpecTimestamp == InitTs /\ [][NextTs]_vars

SpecUdp == InitUdp /\ [][NextUdp]_vars

\* for_ip is straight-line code around two bind calls that return: a call in
\* progress takes its next step.
FairSpecUdp == SpecUdp /\ WF_vars(BindRtp) /\ WF_vars(BindRtcp)

-----------------------------------------------------------------------------
(* Claims about the fixed-size audio depacketizer, checked under SpecAudio. *)

\* the last call was a push made with nothing pending
PushedOnEmpty == audioRet.op = "push" /\ ~audioRet.pre.pending.some

\* the fields an AudioFrame takes over from its packet
CarriesPacket(frame, pkt) ==
    /\ frame.some
    /\ frame.data = pkt.payload
    /\ frame.loss = pkt.loss
    /\ frame.ctx = pkt.ctx
    /\ frame.stream_id = pkt.stream_id
    /\ frame.timestamp = pkt.timestamp

\* C1 as stated, on the lengths below u16::MAX and the non-zero sample sizes
\* (where push returns a value): push on a depacketizer with nothing pending
\* succeeds if and only if 8L mod B = 0, the empty payload L = 0 included, and
\* then the pending frame has frame_length = 8L / B.
C1_Original ==
    LET L == audioRet.pkt.payload.len
        B == audioRet.pre.bits_per_sample
    IN (PushedOnEmpty /\ B >= 1 /\ L < U16_MAX) =>
          /\ (audioRet.res = "Ok") <=> ((8 * L) % B = 0)
          /\ audioRet.res = "Ok" => depacketizer.pending.frame_length = (8 * L) \div B

\* C1 (amended): for every payload length L and every bits-per-sample B, push
\* on a depacketizer with nothing pending returns Ok if and only if
\* 1 <= L < 65535, B >= 1 and 8L mod B = 0, and then the pending AudioFrame has
\* frame_length = 8L / B; the empty payload is refused with Err.
C1_PushOkIffNonEmptyMultiple ==
    LET L == audioRet.pkt.payload.len
        B == audioRet.pre.bits_per_sample
    IN PushedOnEmpty =>
          /\ (audioRet.res = "Ok") <=>
                (B >= 1 /\ 1 <= L /\ L < U16_MAX /\ (8 * L) % B = 0)
          /\ audioRet.res = "Ok" =>
                /\ depacketizer.pending.some
                /\ depacketizer.pending.frame_length = (8 * L) \div B
          /\ (L = 0 /\ B >= 1) => audioRet.res = "Err"

\* a push of 3 bytes of 3-bit samples has succeeded with frame_length 8
C1_Witness ==
    /\ PushedOnEmpty
    /\ audioRet.res = "Ok"
    /\ audioRet.pkt.payload.len = 3
    /\ audioRet.pre.bits_per_sample = 3
    /\ depacketizer.pending.frame_length = 8

\* C2: a push of a packet whose payload is 65535 bytes or longer returns Err
\* (it does not abort), as a push of a payload of a wrong bit count does.
C2_LongPayloadReturnsErr ==
    (PushedOnEmpty /\ audioRet.pkt.payload.len >= U16_MAX) => audioRet.res = "Err"

\* C8: the frames emitted (pulled, then the pending one) are the packets of
\* the successful pushes, in push order, each with the packet's data, loss,
\* ctx, stream_id and timestamp, none duplicated or dropped; a pull with
\* nothing pending (on a fresh depacketizer, or after another pull) returns
\* nothing, and a pull after a successful push returns that packet's frame.
C8_OneFramePerPacket ==
    LET emitted == IF depacketizer.pending.some
                   THEN Append(pulled, depacketizer.pending) ELSE pulled
    IN /\ Len(emitted) = Len(pushed)
       /\ \A n \in 1 .. Len(emitted) : CarriesPacket(emitted[n], pushed[n])
       /\ (audioRet.op = "pull" /\ audioPrev.op \in {"new", "pull"}) =>
             audioRet.res = "None"
       /\ (audioRet.op = "pull" /\ audioPrev = [op |-> "push", res |-> "Ok"]) =>
             /\ audioRet.res = "Some"
             /\ CarriesPacket(audioRet.item, pushed[Len(pushed)])
             /\ ~depacketizer.pending.some

\* two different packets have been pushed and pulled, the second pull just now
C8_Witness ==
    /\ Len(pulled) = 2
    /\ pulled[1].data # pulled[2].data
    /\ audioRet.op = "pull"
    /\ audioRet.res = "Some"

\* C9: a push that returns Err leaves the depacketizer as it was, with nothing
\* pending, and the assertion pending.is_none() at the start of push never
\* fails for a caller that pulls after every successful push.
C9_FailedPushLeavesNothingPending ==
    /\ audioRet.res # "panic_pending"
    /\ (audioRet.op = "push" /\ audioRet.res = "Err") =>
          /\ depacketizer = audioRet.pre
          /\ ~depacketizer.pending.some

\* a push has succeeded directly after a failed push, with no pull in between
C9_Witness ==
    /\ audioPrev = [op |-> "push", res |-> "Err"]
    /\ audioRet.op = "push"
    /\ audioRet.res = "Ok"

-----------------------------------------------------------------------------
(* Claims about Timestamp, checked under SpecTimestamp. *)

\* C3: for every (timestamp, clock_rate, start) with clock_rate > 0 and
\* timestamp >= start, Timestamp::new returns a Timestamp whose elapsed() is
\* timestamp - start (no overflow in any build), so that elapsed_secs()
\* divides timestamp - start by clock_rate; and Timestamp::new returns None
\* only when timestamp - start does not fit in an i64.
C3_NewSucceedsAndElapsed ==
    (tsPc = "made" /\ nAdds = 0) =>
        LET d == ZSub(tsArgs.timestamp, tsArgs.start)
        IN /\ (tsArgs.clock_rate > 0 /\ ZLe(tsArgs.start, tsArgs.timestamp)) =>
                 /\ ts.some
                 /\ elapsed(ts) = {[panic |-> FALSE, value |-> d]}
                 /\ elapsed_secs(ts) =
                       {[panic |-> FALSE, num |-> d, den |-> tsArgs.clock_rate]}
           /\ ~ts.some => ~FitsI64(d)

\* Timestamp::new has returned a Timestamp for timestamp = i64::MAX, start = u32::MAX
C3_Witness ==
    /\ tsPc = "made"
    /\ nAdds = 0
    /\ tsArgs.timestamp = I64_MAX
    /\ tsArgs.start = U32_MAX
    /\ ts.some

\* C10: a Timestamp made by Timestamp::new and advanced by successful try_add
\* calls has timestamp - start within i64 (elapsed() overflows in no build)
\* and the clock_rate and start it was constructed with; try_add(delta)
\* returns None exactly when timestamp + delta exceeds i64::MAX and otherwise
\* a Timestamp with timestamp + delta, which is not below the one before.
C10_TryAddKeepsInvariants ==
    /\ ts.some =>
          /\ FitsI64(ts.timestamp)
          /\ FitsI64(ZSub(ts.timestamp, ts.start))
          /\ \A e \in elapsed(ts) : ~e.panic
          /\ ts.clock_rate = tsArgs.clock_rate
          /\ ts.start = tsArgs.start
    /\ tsAdd.called =>
          LET sum == ZAdd(tsAdd.pre.timestamp, tsAdd.delta)
          IN /\ ~tsAdd.some <=> ZLt(I64_MAX, sum)
             /\ tsAdd.some => (ts.timestamp = sum /\ ZLe(tsAdd.pre.timestamp, ts.timestamp))
             /\ ~tsAdd.some => ts = tsAdd.pre

\* two try_add calls have been made, the last one adding u32::MAX successfully
C10_Witness ==
    /\ nAdds = 2
    /\ tsAdd.called
    /\ tsAdd.some
    /\ tsAdd.delta = U32_MAX
    /\ ZLt(tsAdd.pre.timestamp, ts.timestamp)

-----------------------------------------------------------------------------
(* Claims about UdpPair::for_ip, checked under SpecUdp. *)

\* the sockets the k-th for_ip call has bound and not closed
OwnedBy(k) == { s \in sockets : s.owner = k }

\* the last for_ip call has returned
Returned == pc = "idle" /\ call >= 1 /\ udpRet.call = call

\* C4: a pair for_ip returned has an even rtp_port in [5000, 65000), its RTP
\* socket bound to rtp_port and its RTCP socket to rtp_port + 1, which fits
\* in 16 bits; every candidate port of every attempt is even and in the
\* range, so the debug assertion never fails; and when both binds of the
\* first attempt succeed (the first candidate pair is free), for_ip returns
\* Ok with that pair.
C4_PortsEvenInRange ==
    /\ udpRet.kind # "panic"
    /\ attempt.rtp # "none" =>
          /\ attempt.rtp_port % 2 = 0
          /\ RangeContains(attempt.rtp_port)
          /\ attempt.rtp_port + 1 <= U16_MAX
    /\ \A p \in pairs :
          /\ p.rtp_port % 2 = 0
          /\ RangeContains(p.rtp_port)
          /\ p.rtp_socket \in sockets
          /\ p.rtp_socket.port = p.rtp_port
          /\ p.rtcp_socket \in sockets
          /\ p.rtcp_socket.port = p.rtp_port + 1
          /\ p.rtcp_socket.port <= U16_MAX
    /\ (Returned /\ udpRet.kind = "Ok") =>
          /\ udpRet.rtp_port = attempt.rtp_port
          /\ attempt.rtp = "Ok"
          /\ attempt.rtcp = "Ok"
    /\ (Returned /\ attempt.i = 0 /\ attempt.rtp = "Ok" /\ attempt.rtcp = "Ok") =>
          /\ udpRet.kind = "Ok"
          /\ udpRet.rtp_port = attempt.rtp_port
          /\ tally.tries = 1

\* for_ip has returned the highest pair of the range, 64998/64999, at its first attempt
C4_Witness ==
    /\ Returned
    /\ udpRet.kind = "Ok"
    /\ attempt.i = 0
    /\ udpRet.rtp_port = ALLOWED_RTP_RANGE_end - 2
    /\ UdpPair(call, udpRet.rtp_port) \in pairs

\* C5: the pair is bound atomically. At the start of every attempt and when
\* for_ip has returned an error, no socket opened by the call is bound: an
\* RTP socket whose RTCP bind failed has been released. Between the two binds
\* of an attempt only its RTP socket is bound. When for_ip has returned Ok,
\* exactly the two sockets of its even/odd pair are bound (until the caller
\* drops the pair).
C5_PairBoundAtomically ==
    /\ \A k \in 1 .. call :
          OwnedBy(k) =
             IF \E p \in pairs : p.call = k
             THEN UNION { {p.rtp_socket, p.rtcp_socket} : p \in {q \in pairs : q.call = k} }
             ELSE IF k = call /\ pc = "rtcp"
                  THEN {[port |-> rtp_port, owner |-> k]}
                  ELSE {}
    /\ pc = "rtp" => OwnedBy(call) = {}
    /\ (Returned /\ udpRet.kind = "Err") => OwnedBy(call) = {}
    /\ (Returned /\ udpRet.kind = "Ok" /\ UdpPair(call, udpRet.rtp_port) \in pairs) =>
          /\ OwnedBy(call) = {[port |-> udpRet.rtp_port, owner |-> call],
                              [port |-> udpRet.rtp_port + 1, owner |-> call]}
          /\ udpRet.rtp_port % 2 = 0

\* an attempt bound RTP, failed to bind RTCP with AddrInUse, and the next attempt starts
C5_Witness ==
    /\ pc = "rtp"
    /\ attempt.rtp = "Ok"
    /\ attempt.rtcp = "AddrInUse"
    /\ i = attempt.i + 1

\* C6: two pairs that for_ip returned and the caller holds at the same time
\* are disjoint: their four ports are pairwise distinct.
C6_SuccessivePairsDisjoint ==
    \A p, q \in pairs :
        p # q =>
          Cardinality({p.rtp_port, p.rtp_port + 1, q.rtp_port, q.rtp_port + 1}) = 4

\* the second for_ip call has returned a pair while the first call's pair is held
C6_Witness ==
    /\ Returned
    /\ call = 2
    /\ udpRet.kind = "Ok"
    /\ \E p, q \in pairs : p.call = 1 /\ q.call = 2

\* the bounds and the results of a for_ip call
BoundedTries ==
    /\ tally.tries <= MAX_TRIES
    /\ tally.rtp_binds = tally.tries
    /\ tally.rtcp_binds <= tally.tries
    /\ tally.in_use + tally.other <= tally.tries
    /\ pc = "rtp" => (i < MAX_TRIES /\ tally.tries = i)
    /\ pc = "rtcp" => (i < MAX_TRIES /\ tally.tries = i + 1)
    /\ Returned =>
          /\ (tally.tries = MAX_TRIES /\ tally.in_use = MAX_TRIES) <=>
                (udpRet.kind = "Err" /\ udpRet.err = "AddrInUse")
          /\ tally.tries = attempt.i + 1
    /\ tally.other > 0 =>
          /\ Returned
          /\ udpRet.kind = "Err"
          /\ udpRet.err = "Other"
          /\ tally.other = 1
          /\ (attempt.rtp = "Other" \/ attempt.rtcp = "Other")
    /\ (Returned /\ udpRet.kind = "Err" /\ udpRet.err = "Other") => tally.other = 1

\* C7: every for_ip call returns, after at most MAX_TRIES = 10 attempts, each
\* with one RTP bind and at most one RTCP bind; it returns Err(AddrInUse)
\* exactly when all 10 attempts ended in an AddrInUse failure of the RTP or
\* the RTCP bind; a bind failure of another kind is returned at once, in the
\* attempt it occurs in. (Checked under FairSpecUdp.)
C7_TerminatesWithinMaxTries ==
    /\ []BoundedTries
    /\ (pc # "idle") ~> (pc = "idle")

\* for_ip has returned Err(AddrInUse) after 10 attempts, some of which failed at the RTCP bind
C7_Witness ==
    /\ Returned
    /\ udpRet.kind = "Err"
    /\ udpRet.err = "AddrInUse"
    /\ tally.tries = MAX_TRIES
    /\ tally.rtcp_binds > 0

=============================================================================
